---------------------------- MODULE Spec2Model ----------------------------
(***************************************************************************)
(* A model of taipy's MongoCollectionDataNode                              *)
(* (src/taipy/core/data/mongo.py): construction and property validation,   *)
(* the query translation of _read_by_query, and the append / write / read  *)
(* operations against a Mongo collection shared with a second adapter.     *)
(*                                                                         *)
(* Python values are modelled as follows.                                  *)
(*   - A dict is a function from a set of keys to values.                  *)
(*   - An element handed to append / write is a row [kind, f]: kind "dict" *)
(*     is a plain mapping with the items f, kind "obj" is an instance of   *)
(*     a custom class whose __dict__ is f.                                 *)
(*   - An optional value is a sequence of length 0 or 1.                   *)
(*   - The Mongo collection is the sequence of its documents in natural    *)
(*     (insertion) order.                                                  *)
(***************************************************************************)
EXTENDS Integers, Sequences, FiniteSets, TLC

\* Bounds of the model.
MaxVal == 1      \* field values range over 0..MaxVal
MaxLen == 2      \* longest list handed to append / write
MaxColl == 2     \* most documents the collection holds
MaxConds == 2    \* longest list of conditions handed to filter

Vals == 0..MaxVal

VARIABLES
    installed,   \* whether pymongo can be imported in this environment
    ctor,        \* the last constructor call: its arguments and its outcome
    adapter,     \* the constructed MongoCollectionDataNode, if any
    connection,  \* the connection last resolved by _connect_mongodb, if any
    taipyProps,  \* the keys this class added to DataNode._TAIPY_PROPERTIES
    coll,        \* the documents of the Mongo collection
    call,        \* the append / write call in progress or last completed
    ret          \* the last read / filter call: its arguments and its outcome

vars == <<installed, ctor, adapter, connection, taipyProps, coll, call, ret>>

ctorVars == <<installed, ctor, adapter, connection, taipyProps>>

----------------------------------------------------------------------------
(***************************************************************************)
(* Construction.                                                           *)
(***************************************************************************)

DB_NAME_KEY == "db_name"
COLLECTION_KEY == "collection_name"
DB_USERNAME_KEY == "db_username"
DB_PASSWORD_KEY == "db_password"
DB_HOST_KEY == "db_host"
DB_PORT_KEY == "db_port"
DB_EXTRA_ARGS_KEY == "db_extra_args"
DB_DRIVER_KEY == "db_driver"
DB_HOST_DEFAULT == "localhost"
DB_PORT_DEFAULT == 27017
CUSTOM_DOCUMENT_PROPERTY == "custom_document"

\* A mutation of REQUIRED_PROPERTIES: the collection name is not required.
RequiredOnlyDbName == {DB_NAME_KEY}

REQUIRED_PROPERTIES == {DB_NAME_KEY, COLLECTION_KEY}

\* The values a custom_document property takes: what inspect.isclass answers
\* for it, and whether it has a callable attribute encode / decode.
CustomDocuments == [isclass : BOOLEAN, encode : BOOLEAN, decode : BOOLEAN]

\* dict.get(key, default)
Get(d, key, default) == IF key \in DOMAIN d THEN d[key] ELSE default

\* _connect_mongodb(...): the connection is identified by its arguments.
ConnectMongodb(properties) ==
    [db_host |-> Get(properties, DB_HOST_KEY, DB_HOST_DEFAULT),
     db_port |-> Get(properties, DB_PORT_KEY, DB_PORT_DEFAULT),
     db_username |-> Get(properties, DB_USERNAME_KEY, ""),
     db_password |-> Get(properties, DB_PASSWORD_KEY, ""),
     db_driver |-> Get(properties, DB_DRIVER_KEY, ""),
     db_extra_args |-> Get(properties, DB_EXTRA_ARGS_KEY, {})]

\* _check_dependency_is_installed("Mongo Data Node", "pymongo")
CheckDependencyIsInstalled(inst) == IF inst THEN "ok" ELSE "DependencyMissing"

\* _check_custom_document
CheckCustomDocument(custom_document) ==
    IF ~custom_document.isclass THEN "InvalidCustomDocument" ELSE "ok"

\* The keys the constructor adds to _TAIPY_PROPERTIES.
AdapterPropertyKeys ==
    {COLLECTION_KEY, DB_NAME_KEY, CUSTOM_DOCUMENT_PROPERTY, DB_USERNAME_KEY,
     DB_PASSWORD_KEY, DB_HOST_KEY, DB_PORT_KEY, DB_DRIVER_KEY, DB_EXTRA_ARGS_KEY}

\* The adapter the constructor body builds once validation has passed.
NewAdapter(properties, last_edit_date) ==
    [collection |-> [client |-> ConnectMongodb(properties),
                     db |-> Get(properties, DB_NAME_KEY, ""),
                     name |-> Get(properties, COLLECTION_KEY, "")],
     custom_document |-> properties[CUSTOM_DOCUMENT_PROPERTY],
     decoder |-> IF properties[CUSTOM_DOCUMENT_PROPERTY].decode
                 THEN "custom" ELSE "default",
     encoder |-> IF properties[CUSTOM_DOCUMENT_PROPERTY].encode
                 THEN "custom" ELSE "default",
     last_edit_date |-> IF last_edit_date = <<>> THEN "now" ELSE last_edit_date[1]]

\* The error __init__ raises on its arguments, "ok" if it raises none.
\* args.properties is <<>> for None and <<d>> for a dict d.
InitError(inst, args) ==
    LET properties == IF args.properties = <<>> THEN <<>> ELSE args.properties[1]
    IN  IF CheckDependencyIsInstalled(inst) # "ok"
        THEN CheckDependencyIsInstalled(inst)
        ELSE IF REQUIRED_PROPERTIES \ DOMAIN properties # {}
        THEN "MissingRequiredProperty"
        ELSE IF CUSTOM_DOCUMENT_PROPERTY \notin DOMAIN properties
        THEN "KeyError"
        ELSE CheckCustomDocument(properties[CUSTOM_DOCUMENT_PROPERTY])

\* The property dicts the constructor is called with.
OptionalSettings ==
    {<<>>,
     [db_host |-> "mongo.example", db_port |-> DB_PORT_DEFAULT + 1,
      db_username |-> "user", db_password |-> "secret"]}

Merge(f, g) == [k \in DOMAIN f \cup DOMAIN g |->
                   IF k \in DOMAIN f THEN f[k] ELSE g[k]]

RequiredSettings ==
    {<<>>, [db_name |-> "db"], [collection_name |-> "c"],
     [db_name |-> "db", collection_name |-> "c"]}

CustomDocumentSettings ==
    {<<>>} \cup {[custom_document |-> cd] : cd \in CustomDocuments}

PropertyDicts ==
    {Merge(Merge(r, c), o) : r \in RequiredSettings,
                             c \in CustomDocumentSettings,
                             o \in OptionalSettings}

InitArgs ==
    [properties : {<<>>} \cup {<<p>> : p \in PropertyDicts},
     last_edit_date : {<<>>, <<"given">>}]

\* MongoCollectionDataNode.__init__
Construct(args) ==
    LET err == InitError(installed, args)
    IN  /\ ctor' = [args |-> <<args>>, err |-> err]
        /\ IF err = "ok"
           THEN /\ adapter' = <<NewAdapter(args.properties[1], args.last_edit_date)>>
                /\ connection' = <<ConnectMongodb(args.properties[1])>>
                /\ taipyProps' = taipyProps \cup AdapterPropertyKeys
           ELSE UNCHANGED <<adapter, connection, taipyProps>>
        /\ UNCHANGED <<installed, coll, call, ret>>

InitCtor ==
    /\ installed \in BOOLEAN
    /\ ctor = [args |-> <<>>, err |-> "none"]
    /\ adapter = <<>>
    /\ connection = <<>>
    /\ taipyProps = {}
    /\ coll = <<>>
    /\ call = [op |-> "none"]
    /\ ret = [op |-> "none"]

NextCtor == \E args \in InitArgs : Construct(args)

SpecCtor == InitCtor /\ [][NextCtor]_vars

----------------------------------------------------------------------------
(***************************************************************************)
(* Rows, documents and the codec.                                          *)
(***************************************************************************)

\* The items of the rows handed to append and write.
RowItems == {[a |-> v] : v \in Vals}

Rows == [kind : {"dict", "obj"}, f : RowItems]

\* isinstance(x, dict)
IsDict(x) == x.kind = "dict"

\* Whether document_object.__dict__ exists: it does for an instance of a
\* custom class and raises AttributeError for a plain dict.
HasDunderDict(x) == x.kind = "obj"

\* _default_encoder, where it does not raise
DefaultEncoder(document_object) == [kind |-> "dict", f |-> document_object.f]

\* _default_decoder: self.custom_document(**document)
DefaultDecoder(document) == [kind |-> "obj", f |-> document.f]

\* [self._encoder(row) for row in data]
EncodeAll(data) == [i \in 1..Len(data) |-> DefaultEncoder(data[i])]

\* Whether the comprehension above completes: no element makes encode raise.
CanEncodeAll(data) == \A i \in 1..Len(data) : HasDunderDict(data[i])

\* [self._decoder(row) for row in cursor]
DecodeAll(cursor) == [i \in 1..Len(cursor) |-> DefaultDecoder(cursor[i])]

\* The adapter of the data operations: built by the constructor from valid
\* properties whose custom document class brings no codec of its own.
DataNodeProperties ==
    [db_name |-> "db", collection_name |-> "c",
     custom_document |-> [isclass |-> TRUE, encode |-> FALSE, decode |-> FALSE]]

----------------------------------------------------------------------------
(***************************************************************************)
(* The store: pymongo's Collection.drop, insert_many and find.             *)
(***************************************************************************)

\* A mutation of Drop: the collection keeps its documents.
DropKeepsDocuments(c) == c

\* collection.drop()
Drop(c) == <<>>

\* insert_many checks every document before it sends anything: an element
\* that is no mapping makes it raise TypeError.
ValidDocuments(docs) == \A i \in 1..Len(docs) : IsDict(docs[i])

NoCall == [op |-> "none"]

\* An append / write call: the argument as given, the normalized data, the
\* collection when the call began, the list handed to insert_many, whether
\* the data was handed to encode, whether the collection was dropped, the
\* number of documents inserted and the call's status.
CallRecord(op, arg, data, prior, docs, encoded, dropped, status) ==
    [op |-> op, arg |-> arg, data |-> data, prior |-> prior, docs |-> docs,
     encoded |-> encoded, dropped |-> dropped, n |-> 0, status |-> status]

\* The arguments of append / write: a list of rows, or a single row.
DataArgs ==
    {[islist |-> TRUE, value |-> s] :
        s \in UNION {[1..n -> Rows] : n \in 0..MaxLen}}
    \cup {[islist |-> FALSE, value |-> r] : r \in Rows}

\* if not isinstance(data, list): data = [data]
Normalize(arg) == IF arg.islist THEN arg.value ELSE <<arg.value>>

\* _insert_dicts up to the point where insert_many starts sending: the drop,
\* then insert_many's check of its argument.  Yields the collection and the
\* call's status.
InsertDicts(c, docs, drop) ==
    [coll |-> IF drop THEN Drop(c) ELSE c,
     dropped |-> drop,
     status |-> IF ValidDocuments(docs) THEN "inserting" ELSE "TypeError"]

\* A mutation of the default of _insert_dicts' drop parameter.
DropByDefault == TRUE

\* drop=False, the default _append leaves in place
DROP_DEFAULT == FALSE

\* A mutation of WriteCall: the collection is dropped before the rows are
\* encoded.
WriteCallDropsFirst(c, data) ==
    IF Len(data) = 0
    THEN [coll |-> Drop(c), docs |-> <<>>, encoded |-> FALSE, dropped |-> TRUE,
          status |-> "ok"]
    ELSE IF IsDict(data[1])
    THEN [docs |-> data, encoded |-> FALSE] @@ InsertDicts(c, data, TRUE)
    ELSE IF CanEncodeAll(data)
    THEN [docs |-> EncodeAll(data), encoded |-> TRUE]
         @@ InsertDicts(c, EncodeAll(data), TRUE)
    ELSE [coll |-> Drop(c), docs |-> <<>>, encoded |-> TRUE, dropped |-> TRUE,
          status |-> "AttributeError"]

\* A mutation of WriteCall: a list of dicts is inserted without drop=True.
WriteCallForgetsDrop(c, data) ==
    IF Len(data) = 0
    THEN [coll |-> Drop(c), docs |-> <<>>, encoded |-> FALSE, dropped |-> TRUE,
          status |-> "ok"]
    ELSE IF IsDict(data[1])
    THEN [docs |-> data, encoded |-> FALSE] @@ InsertDicts(c, data, FALSE)
    ELSE IF CanEncodeAll(data)
    THEN [docs |-> EncodeAll(data), encoded |-> TRUE]
         @@ InsertDicts(c, EncodeAll(data), TRUE)
    ELSE [coll |-> c, docs |-> <<>>, encoded |-> TRUE, dropped |-> FALSE,
          status |-> "AttributeError"]

\* _write on normalized data, up to the point where insert_many starts
\* sending.
WriteCall(c, data) ==
    IF Len(data) = 0
    THEN [coll |-> Drop(c), docs |-> <<>>, encoded |-> FALSE, dropped |-> TRUE,
          status |-> "ok"]
    ELSE IF IsDict(data[1])
    THEN [docs |-> data, encoded |-> FALSE] @@ InsertDicts(c, data, TRUE)
    ELSE IF CanEncodeAll(data)
    THEN [docs |-> EncodeAll(data), encoded |-> TRUE]
         @@ InsertDicts(c, EncodeAll(data), TRUE)
    ELSE [coll |-> c, docs |-> <<>>, encoded |-> TRUE, dropped |-> FALSE,
          status |-> "AttributeError"]

\* _append on normalized data, up to the point where insert_many starts
\* sending.
AppendCall(c, data) ==
    IF Len(data) = 0
    THEN [coll |-> c, docs |-> <<>>, encoded |-> FALSE, dropped |-> FALSE,
          status |-> "ok"]
    ELSE IF IsDict(data[1])
    THEN [docs |-> data, encoded |-> FALSE] @@ InsertDicts(c, data, DROP_DEFAULT)
    ELSE IF CanEncodeAll(data)
    THEN [docs |-> EncodeAll(data), encoded |-> TRUE]
         @@ InsertDicts(c, EncodeAll(data), DROP_DEFAULT)
    ELSE [coll |-> c, docs |-> <<>>, encoded |-> TRUE, dropped |-> FALSE,
          status |-> "AttributeError"]

\* MongoCollectionDataNode._write
Write(arg) ==
    LET data == Normalize(arg)
        r == WriteCall(coll, data)
    IN  /\ call.op = "none"
        /\ Len(data) <= MaxColl
        /\ coll' = r.coll
        /\ call' = CallRecord("write", arg, data, coll, r.docs, r.encoded,
                              r.dropped, r.status)
        /\ UNCHANGED <<ctorVars, ret>>

\* MongoCollectionDataNode._append
AppendData(arg) ==
    LET data == Normalize(arg)
        r == AppendCall(coll, data)
    IN  /\ call.op = "none"
        /\ Len(coll) + Len(data) <= MaxColl
        /\ coll' = r.coll
        /\ call' = CallRecord("append", arg, data, coll, r.docs, r.encoded,
                              r.dropped, r.status)
        /\ UNCHANGED <<ctorVars, ret>>

\* insert_many (ordered) inserts the next document; after the last one the
\* call returns.
InsertOne ==
    /\ call.op # "none"
    /\ call.status = "inserting"
    /\ coll' = Append(coll, call.docs[call.n + 1])
    /\ call' = [call EXCEPT !.n = @ + 1,
                            !.status = IF call.n + 1 = Len(call.docs)
                                       THEN "ok" ELSE "inserting"]
    /\ UNCHANGED <<ctorVars, ret>>

\* insert_many fails (a store or connection error): the documents inserted
\* so far stay, the rest are not sent, and the error reaches the caller of
\* _write / _append, which catches nothing.
InsertFails ==
    /\ call.op # "none"
    /\ call.status = "inserting"
    /\ call' = [call EXCEPT !.status = "InsertError"]
    /\ UNCHANGED <<ctorVars, coll, ret>>

\* The call has returned or raised; the caller goes on.
Return ==
    /\ call.op # "none"
    /\ call.status # "inserting"
    /\ call' = NoCall
    /\ ret' = [op |-> "none"]
    /\ UNCHANGED <<ctorVars, coll>>

----------------------------------------------------------------------------
(***************************************************************************)
(* Queries: _read_by_query, filter and _read.                              *)
(***************************************************************************)

\* taipy.core.data.operator.Operator
Operators ==
    {"EQUAL", "NOT_EQUAL", "GREATER_THAN", "GREATER_OR_EQUAL", "LESS_THAN",
     "LESS_OR_EQUAL"}

\* taipy.core.data.operator.JoinOperator, and a value that is neither member
JoinOperators == {"AND", "OR"}

JoinArgs == JoinOperators \cup {"XOR"}

\* The fields a condition names.
Fields == {"a", "b"}

\* A condition is a tuple (key, value, operator).
Conditions ==
    {c \in [key : Fields, value : Vals, operator : Operators] :
        c.key = "b" => c.value = 0}

\* The operators argument: None, a list of conditions, or one bare condition
\* (held in value[1]).
OperatorArgs ==
    {[form |-> "none", value |-> <<>>]}
    \cup {[form |-> "list", value |-> s] :
            s \in UNION {[1..n -> Conditions] : n \in 0..MaxConds}}
    \cup {[form |-> "tuple", value |-> <<c>>] : c \in Conditions}

\* A mutation of MongoCondition: GREATER_THAN is translated to $gte.
MongoConditionGteForGt(key, value, operator) ==
    IF operator = "EQUAL" THEN <<[key |-> key, op |-> "$eq", value |-> value]>>
    ELSE IF operator = "NOT_EQUAL"
    THEN <<[key |-> key, op |-> "$ne", value |-> value]>>
    ELSE IF operator = "GREATER_THAN"
    THEN <<[key |-> key, op |-> "$gte", value |-> value]>>
    ELSE IF operator = "GREATER_OR_EQUAL"
    THEN <<[key |-> key, op |-> "$gte", value |-> value]>>
    ELSE IF operator = "LESS_THAN"
    THEN <<[key |-> key, op |-> "$lt", value |-> value]>>
    ELSE IF operator = "LESS_OR_EQUAL"
    THEN <<[key |-> key, op |-> "$lte", value |-> value]>>
    ELSE <<>>

\* The body of the loop of _read_by_query: what one (key, value, operator)
\* appends to conditions.  {key: value} is written with the op "$eq".
MongoCondition(key, value, operator) ==
    IF operator = "EQUAL" THEN <<[key |-> key, op |-> "$eq", value |-> value]>>
    ELSE IF operator = "NOT_EQUAL"
    THEN <<[key |-> key, op |-> "$ne", value |-> value]>>
    ELSE IF operator = "GREATER_THAN"
    THEN <<[key |-> key, op |-> "$gt", value |-> value]>>
    ELSE IF operator = "GREATER_OR_EQUAL"
    THEN <<[key |-> key, op |-> "$gte", value |-> value]>>
    ELSE IF operator = "LESS_THAN"
    THEN <<[key |-> key, op |-> "$lt", value |-> value]>>
    ELSE IF operator = "LESS_OR_EQUAL"
    THEN <<[key |-> key, op |-> "$lte", value |-> value]>>
    ELSE <<>>

\* The loop of _read_by_query over a list of conditions.
RECURSIVE MongoConditions(_)
MongoConditions(operators) ==
    IF operators = <<>> THEN <<>>
    ELSE MongoCondition(operators[1].key, operators[1].value,
                        operators[1].operator)
         \o MongoConditions(Tail(operators))

\* Whether a document matches one translated condition, as find decides it:
\* a comparison needs the field, and $ne also matches a document without it.
MatchesCondition(document, cond) ==
    LET has == cond.key \in DOMAIN document.f
        v == document.f[cond.key]
    IN  IF cond.op = "$eq" THEN has /\ v = cond.value
        ELSE IF cond.op = "$ne" THEN ~(has /\ v = cond.value)
        ELSE IF cond.op = "$gt" THEN has /\ v > cond.value
        ELSE IF cond.op = "$gte" THEN has /\ v >= cond.value
        ELSE IF cond.op = "$lt" THEN has /\ v < cond.value
        ELSE has /\ v <= cond.value

\* Whether a document matches a query: {} (written with the join "all"),
\* {"$and": conditions} or {"$or": conditions}.
Matches(document, query) ==
    IF query.join = "all" THEN TRUE
    ELSE IF query.join = "$and"
    THEN \A i \in 1..Len(query.conditions) :
            MatchesCondition(document, query.conditions[i])
    ELSE \E i \in 1..Len(query.conditions) :
            MatchesCondition(document, query.conditions[i])

\* collection.find(query): the matching documents in natural order
Find(c, query) == SelectSeq(c, LAMBDA document : Matches(document, query))

MatchAll == [join |-> "all", conditions |-> <<>>]

\* A mutation of ReadByQuery: the join operator is checked first, whatever
\* the operators are.
ReadByQueryChecksJoinFirst(c, operators, join_operator) ==
    IF join_operator \notin JoinOperators
    THEN [err |-> "NotImplementedError", finds |-> <<>>, cursor |-> <<>>]
    ELSE IF operators.form = "none" \/ operators.value = <<>>
    THEN [err |-> "ok", finds |-> <<MatchAll>>, cursor |-> Find(c, MatchAll)]
    ELSE LET list == IF operators.form = "list" THEN operators.value
                     ELSE <<operators.value[1]>>
             query == [join |-> IF join_operator = "AND" THEN "$and" ELSE "$or",
                       conditions |-> MongoConditions(list)]
         IN  [err |-> "ok", finds |-> <<query>>, cursor |-> Find(c, query)]

\* _read_by_query: the error it raises, the queries it hands to find and
\* the cursor it returns.
ReadByQuery(c, operators, join_operator) ==
    IF operators.form = "none" \/ operators.value = <<>>
    THEN [err |-> "ok", finds |-> <<MatchAll>>, cursor |-> Find(c, MatchAll)]
    ELSE LET list == IF operators.form = "list" THEN operators.value
                     ELSE <<operators.value[1]>>
             conditions == MongoConditions(list)
         IN  IF join_operator = "AND"
             THEN [err |-> "ok",
                   finds |-> <<[join |-> "$and", conditions |-> conditions]>>,
                   cursor |-> Find(c, [join |-> "$and",
                                       conditions |-> conditions])]
             ELSE IF join_operator = "OR"
             THEN [err |-> "ok",
                   finds |-> <<[join |-> "$or", conditions |-> conditions]>>,
                   cursor |-> Find(c, [join |-> "$or",
                                       conditions |-> conditions])]
             ELSE [err |-> "NotImplementedError", finds |-> <<>>,
                   cursor |-> <<>>]

NoRet == [op |-> "none"]

\* The status of the append / write call a read falls into.
CallStatus == IF call.op = "none" THEN "none" ELSE call.status

\* MongoCollectionDataNode.filter
Filter(operators, join_operator) ==
    LET r == ReadByQuery(coll, operators, join_operator)
    IN  /\ ret' = [op |-> "filter", operators |-> operators,
                   join |-> join_operator, err |-> r.err, finds |-> r.finds,
                   rows |-> DecodeAll(r.cursor), during |-> CallStatus]
        /\ UNCHANGED <<ctorVars, coll, call>>

\* MongoCollectionDataNode._read, called through any adapter of the
\* collection, at any time.
Read ==
    LET r == ReadByQuery(coll, [form |-> "none", value |-> <<>>], "AND")
    IN  /\ ret' = [op |-> "read", operators |-> [form |-> "none", value |-> <<>>],
                   join |-> "AND", err |-> r.err, finds |-> r.finds,
                   rows |-> DecodeAll(r.cursor), during |-> CallStatus]
        /\ UNCHANGED <<ctorVars, coll, call>>

\* The caller has taken the result of filter.
FilterReturn ==
    /\ ret.op = "filter"
    /\ ret' = NoRet
    /\ UNCHANGED <<ctorVars, coll, call>>

----------------------------------------------------------------------------
(***************************************************************************)
(* Specifications.                                                         *)
(***************************************************************************)

\* The state a successful construction from DataNodeProperties leaves.
Constructed ==
    /\ installed = TRUE
    /\ ctor = [args |-> <<[properties |-> <<DataNodeProperties>>,
                           last_edit_date |-> <<>>]>>,
               err |-> "ok"]
    /\ adapter = <<NewAdapter(DataNodeProperties, <<>>)>>
    /\ connection = <<ConnectMongodb(DataNodeProperties)>>
    /\ taipyProps = AdapterPropertyKeys

\* Append, write and read on one collection, empty at first: one adapter
\* writes, reads may fall at any point.
Init ==
    /\ Constructed
    /\ coll = <<>>
    /\ call = NoCall
    /\ ret = NoRet

Next ==
    \/ \E arg \in DataArgs : Write(arg)
    \/ \E arg \in DataArgs : AppendData(arg)
    \/ InsertOne
    \/ InsertFails
    \/ Return
    \/ Read

Spec == Init /\ [][Next]_vars

\* The documents of the collections queries are run on: a field is present
\* or not.
QueryItems ==
    {m \in UNION {[S -> Vals] : S \in SUBSET Fields} :
        "b" \in DOMAIN m => m["b"] = 0}

\* The collections of at most two documents.
QueryColls ==
    UNION {[1..n -> [kind : {"dict"}, f : QueryItems]] : n \in 0..2}

\* filter and read on a collection that holds any documents.
InitQuery ==
    /\ Constructed
    /\ coll \in QueryColls
    /\ call = NoCall
    /\ ret = NoRet

\* A caller calls filter once the result of its last call is taken.
FilterCall ==
    /\ ret.op = "none"
    /\ \E operators \in OperatorArgs, join_operator \in JoinArgs :
          Filter(operators, join_operator)

NextQuery ==
    \/ FilterCall
    \/ Read
    \/ FilterReturn

SpecQuery == InitQuery /\ [][NextQuery]_vars

----------------------------------------------------------------------------
(***************************************************************************)
(* The claims.                                                             *)
(***************************************************************************)

\* The stored form of an element of the input: a mapping as it is, an
\* object as the mapping of its attributes.
StoredForm(x) == [kind |-> "dict", f |-> x.f]

StoredForms(data) == [i \in 1..Len(data) |-> StoredForm(data[i])]

\* The decoded form of a stored document: the custom object built from its
\* items.
DecodedForm(document) == [kind |-> "obj", f |-> document.f]

DecodedForms(docs) == [i \in 1..Len(docs) |-> DecodedForm(docs[i])]

IsPrefix(s, t) == Len(s) <= Len(t) /\ SubSeq(t, 1, Len(s)) = s

\* C1: once write(data) has completed, the collection holds exactly the
\* stored forms of the normalized input and none of the prior documents,
\* write([]) leaves it empty, and a readAll() that follows returns exactly
\* the decoded forms of the input (the empty sequence after write([])).
C1_WriteReplaces ==
    (call.op = "write" /\ call.status = "ok") =>
        /\ coll = StoredForms(call.data)
        /\ Len(coll) = Len(call.data)
        /\ (call.data = <<>> => coll = <<>>)
        /\ (ret.op = "read" /\ ret.during = "ok" =>
               /\ ret.err = "ok"
               /\ ret.rows = DecodedForms(StoredForms(call.data)))

\* A write of two objects over a collection that held other documents has
\* completed and been read back.
C1_Witness ==
    /\ call.op = "write" /\ call.status = "ok"
    /\ Len(call.data) = 2 /\ call.encoded
    /\ call.data[1] # call.data[2]
    /\ call.prior # <<>>
    /\ \A i \in 1..Len(call.prior) : call.prior[i] # StoredForm(call.data[1])
    /\ ret.op = "read" /\ ret.during = "ok" /\ Len(ret.rows) = 2

\* C2: append never removes or changes a document: at every point of an
\* append the prior documents are still there, in place; once append(data)
\* has returned the collection is the prior one followed by the stored forms
\* of the normalized input, so its size has grown by exactly the number of
\* elements (by one for append([x])); append([]) changes nothing.
C2_AppendPreserves ==
    call.op = "append" =>
        /\ IsPrefix(call.prior, coll)
        /\ (call.status = "ok" =>
               /\ coll = call.prior \o StoredForms(call.data)
               /\ Len(coll) = Len(call.prior) + Len(call.data))
        /\ (call.data = <<>> => call.status = "ok" /\ coll = call.prior)

\* append([x]) of one object to a non-empty collection has returned.
C2_Witness ==
    /\ call.op = "append" /\ call.status = "ok"
    /\ call.arg.islist /\ Len(call.data) = 1 /\ call.encoded
    /\ call.prior # <<>>
    /\ Len(coll) = Len(call.prior) + 1

\* C3 (as claimed): on a non-empty input, append and write hand the data to
\* encode exactly when at least one element, at whatever position, is not a
\* mapping; so no list holding a non-mapping reaches insert_many unencoded.
C3_EncodesIffSomeNonMapping ==
    (call.op # "none" /\ call.data # <<>>) =>
        /\ (call.encoded <=> \E i \in 1..Len(call.data) : ~IsDict(call.data[i]))
        /\ (~call.encoded => \A i \in 1..Len(call.docs) : IsDict(call.docs[i]))

\* C8: a reader never observes a mix of old and new documents of a write:
\* what a readAll() returns before, during or after the write is the decoded
\* prior collection (only before the drop, or when the write never drops
\* because encode raised) or the decoded documents the write has inserted
\* so far, which is empty between the drop and the first insertion.
C8_NoMixObserved ==
    (call.op = "write" /\ ret.op = "read") =>
        IF ret.during = "none" \/ ~call.dropped
        THEN ret.rows = DecodedForms(call.prior)
        ELSE \E k \in 0..Len(call.docs) :
                ret.rows = DecodedForms(SubSeq(call.docs, 1, k))

\* A read that fell between the drop and the first insertion of a write of
\* non-empty data over a non-empty collection returned nothing; the write
\* then completed.
C8_Witness ==
    /\ call.op = "write" /\ call.status = "ok"
    /\ call.prior # <<>> /\ call.data # <<>> /\ coll # <<>>
    /\ ret.op = "read" /\ ret.during = "inserting" /\ ret.rows = <<>>

\* Whether the write ended with insert_many raising after the drop.
WriteFailedInInsert ==
    /\ call.op = "write" /\ call.data # <<>> /\ call.dropped
    /\ call.status \in {"InsertError", "TypeError"}

C10_EncodeFailureLeavesCollection ==
    /\ (call.op # "none" /\ call.status = "AttributeError") =>
           /\ coll = call.prior
           /\ ~call.dropped
           /\ call.n = 0
    /\ (call.op # "none" /\ call.encoded
          /\ \E i \in 1..Len(call.data) : call.data[i].kind # "obj") =>
           call.status = "AttributeError"

\* A write whose second element made encode raise, on a non-empty
\* collection.
C10_Witness ==
    /\ call.op = "write" /\ call.status = "AttributeError"
    /\ Len(call.data) = 2 /\ call.data[1].kind = "obj"
    /\ call.prior # <<>> /\ coll = call.prior

----------------------------------------------------------------------------

\* The list of conditions an operators argument stands for.
ConditionList(operators) ==
    IF operators.form = "none" THEN <<>>
    ELSE IF operators.form = "list" THEN operators.value
    ELSE <<operators.value[1]>>

\* The single-field predicate of a condition.
RefPredicate(document, c) ==
    LET has == c.key \in DOMAIN document.f
        v == document.f[c.key]
    IN  CASE c.operator = "EQUAL" -> has /\ v = c.value
          [] c.operator = "NOT_EQUAL" -> ~has \/ v # c.value
          [] c.operator = "GREATER_THAN" -> has /\ v > c.value
          [] c.operator = "GREATER_OR_EQUAL" -> has /\ v >= c.value
          [] c.operator = "LESS_THAN" -> has /\ v < c.value
          [] c.operator = "LESS_OR_EQUAL" -> has /\ v <= c.value

\* The reference filter: no condition selects every document, AND the
\* documents matching all predicates, OR those matching at least one.
RefSelected(document, conds, join) ==
    IF conds = <<>> THEN TRUE
    ELSE IF join = "AND"
    THEN \A i \in 1..Len(conds) : RefPredicate(document, conds[i])
    ELSE \E i \in 1..Len(conds) : RefPredicate(document, conds[i])

RefFilter(c, conds, join) ==
    SelectSeq(c, LAMBDA document : RefSelected(document, conds, join))

\* C4: filter(conditions, join) with join AND or OR returns exactly the
\* decoded documents the reference filter selects, hands find one predicate
\* per condition, and with no condition returns what readAll() returns.
C4_FilterMatchesReference ==
    (ret.op = "filter" /\ ret.join \in {"AND", "OR"}) =>
        LET conds == ConditionList(ret.operators)
        IN  /\ ret.err = "ok"
            /\ ret.rows = DecodedForms(RefFilter(coll, conds, ret.join))
            /\ Len(ret.finds) = 1
            /\ Len(ret.finds[1].conditions) = Len(conds)
            /\ (conds = <<>> => ret.rows = DecodedForms(coll))

\* A filter with two conditions on different fields joined by OR selected
\* one of two documents.
C4_Witness ==
    /\ ret.op = "filter" /\ ret.join = "OR" /\ ret.operators.form = "list"
    /\ Len(ret.operators.value) = 2
    /\ ret.operators.value[1].key # ret.operators.value[2].key
    /\ ret.operators.value[1].operator = "GREATER_THAN"
    /\ Len(coll) = 2 /\ Len(ret.rows) = 1

\* C5 (as claimed): with a join mode outside {AND, OR} the query fails with
\* NotImplementedError for every condition sequence, the empty and the
\* absent one included, and no find is issued.
C5_BadJoinAlwaysFails ==
    (ret.op = "filter" /\ ret.join \notin {"AND", "OR"}) =>
        ret.err = "NotImplementedError" /\ ret.finds = <<>>

\* C5 (amended): with a join mode outside {AND, OR} the query fails with
\* NotImplementedError, and no find is issued, for every non-empty condition
\* sequence; with an empty or absent one the join mode is not looked at: one
\* find with no filter is issued and every document is returned.
C5_BadJoinFailsOnConditions ==
    (ret.op = "filter" /\ ret.join \notin {"AND", "OR"}) =>
        IF ConditionList(ret.operators) # <<>>
        THEN ret.err = "NotImplementedError" /\ ret.finds = <<>>
             /\ ret.rows = <<>>
        ELSE ret.err = "ok" /\ Len(ret.finds) = 1
             /\ ret.finds[1].join = "all"
             /\ ret.rows = DecodedForms(coll)

\* A filter with a condition and a join mode that is neither AND nor OR
\* failed on a non-empty collection.
C5_Witness ==
    /\ ret.op = "filter" /\ ret.join \notin {"AND", "OR"}
    /\ ConditionList(ret.operators) # <<>>
    /\ ret.err = "NotImplementedError"
    /\ coll # <<>>

----------------------------------------------------------------------------

\* The properties dict of a constructor call (None counts as the empty one).
PropertiesOf(c) ==
    IF c.args[1].properties = <<>> THEN <<>> ELSE c.args[1].properties[1]

LacksRequired(c) ==
    \/ "db_name" \notin DOMAIN PropertiesOf(c)
    \/ "collection_name" \notin DOMAIN PropertiesOf(c)

\* C6 (as claimed): for every properties mapping that lacks db_name or
\* collection_name, construction fails with MissingRequiredProperty.
C6_MissingAlwaysRaised ==
    (ctor.args # <<>> /\ LacksRequired(ctor)) =>
        ctor.err = "MissingRequiredProperty"

\* C6 (amended): where pymongo is installed, for every properties mapping
\* that lacks db_name or collection_name (None included), whatever else it
\* holds, construction fails with MissingRequiredProperty and the call
\* resolves no connection, registers no property key and builds no adapter.
\* Where pymongo is not installed the dependency check fails first.
C6_MissingRaisedFirst ==
    [][(ctor'.args # <<>> /\ LacksRequired(ctor')) =>
          /\ ctor'.err = IF installed THEN "MissingRequiredProperty"
                         ELSE "DependencyMissing"
          /\ UNCHANGED <<adapter, connection, taipyProps>>]_vars

\* A construction without collection_name and with a custom_document that
\* is no class failed with MissingRequiredProperty, before any construction
\* had succeeded.
C6_Witness ==
    /\ ctor.args # <<>>
    /\ "db_name" \in DOMAIN PropertiesOf(ctor)
    /\ "collection_name" \notin DOMAIN PropertiesOf(ctor)
    /\ "custom_document" \in DOMAIN PropertiesOf(ctor)
    /\ ~PropertiesOf(ctor)["custom_document"].isclass
    /\ ctor.err = "MissingRequiredProperty"
    /\ connection = <<>> /\ taipyProps = {} /\ adapter = <<>>

\* C7 (as claimed): where pymongo is installed, for every properties
\* mapping that has db_name and collection_name and whose custom_document
\* is not a class (absent, or a value that is no class), construction fails
\* with InvalidCustomDocument and with no other error.
C7_NonClassRaisesInvalidCustomDocument ==
    (/\ installed
     /\ ctor.args # <<>>
     /\ ~LacksRequired(ctor)
     /\ \/ "custom_document" \notin DOMAIN PropertiesOf(ctor)
        \/ ~PropertiesOf(ctor)["custom_document"].isclass) =>
        ctor.err = "InvalidCustomDocument"

=============================================================================
